---- MODULE Spec2Model ----
(***************************************************************************)
(* Model of src/app.py: a FastAPI inventory service whose whole state is   *)
(* one XML document.  Every handler loads the full list of devices from    *)
(* the document, works on the in-memory list and, when it mutates, writes  *)
(* the full list back.                                                     *)
(*                                                                         *)
(* Values.  A text is a sequence of one-character strings (<<>> is "").    *)
(* Python's None is the value NoneVal and an XML child that is not there   *)
(* is the value Absent; both are sequences holding one long string, so     *)
(* they equal no text.  An id is an integer.  A price is an integer        *)
(* number of halves (3 is the float 1.5): every such float prints and      *)
(* parses exactly as the operators below say.                              *)
(***************************************************************************)
EXTENDS Integers, Sequences, FiniteSets, TLC

VARIABLES
    file,      \* the document at ARQUIVO_ESTOQUE: [st, recs]
    last,      \* the request (or store call) that ended last, with its outcome
    pc,        \* per concurrent request: "idle" or "loaded"
    req,       \* per concurrent request: the request being served
    snap,      \* per concurrent request: the list its load returned
    hist,      \* per concurrent request: outcome of its last finished request
    ver,       \* number of saves done so far by concurrent requests
    started    \* number of concurrent requests started so far

vars == <<file, last, pc, req, snap, hist, ver, started>>

----------------------------------------------------------------------------
(* Bounds *)

MaxId == 2          \* ids used by requests are 0..MaxId (0 is rejected)
MaxDocLen == 2      \* records in a document handed to the store directly
MaxReqs == 3        \* concurrent requests started in one behaviour

----------------------------------------------------------------------------
(* Values *)

NoneVal == <<"NoneType">>
Absent == <<"absent">>

Fields == {"id", "nome", "marca", "preco", "categoria", "deposito"}

Digits == <<"0", "1", "2", "3", "4", "5", "6", "7", "8", "9">>

IsDigit(c) == \E i \in 1..10 : Digits[i] = c

DigitVal(c) == (CHOOSE i \in 1..10 : Digits[i] = c) - 1

IsText(t) == t # NoneVal /\ t # Absent

HasDot(t) == \E i \in 1..Len(t) : t[i] = "."

DotPos(t) == CHOOSE i \in 1..Len(t) : t[i] = "."

(* str(n) for an int n >= 0: its decimal digits. *)
RECURSIVE IntStr(_)
IntStr(n) ==
    IF n < 10 THEN <<Digits[n + 1]>>
    ELSE IntStr(n \div 10) \o <<Digits[(n % 10) + 1]>>

(* int(t) succeeds on a non-empty run of decimal digits. *)
IntOk(t) == IsText(t) /\ Len(t) > 0 /\ \A i \in 1..Len(t) : IsDigit(t[i])

RECURSIVE IntVal(_)
IntVal(t) ==
    IF Len(t) = 0 THEN 0
    ELSE 10 * IntVal(SubSeq(t, 1, Len(t) - 1)) + DigitVal(t[Len(t)])

(* str(x) for a float x = p/2, p >= 0: "1.5", "2.0". *)
FloatStr(p) == IntStr(p \div 2) \o <<".">> \o (IF p % 2 = 0 THEN <<"0">> ELSE <<"5">>)

(* float(t) succeeds on digits, or digits "." and a fraction; the fractions *)
(* a price of this model can have are "0" and "5".                         *)
FloatOk(t) ==
    /\ IsText(t)
    /\ IF HasDot(t)
       THEN /\ IntOk(SubSeq(t, 1, DotPos(t) - 1))
            /\ SubSeq(t, DotPos(t) + 1, Len(t)) \in {<<"0">>, <<"5">>}
       ELSE IntOk(t)

FloatVal(t) ==
    IF HasDot(t)
    THEN 2 * IntVal(SubSeq(t, 1, DotPos(t) - 1))
         + (IF t[Len(t)] = "5" THEN 1 ELSE 0)
    ELSE 2 * IntVal(t)

(* str(v) for a value of a str field: the text itself, "None" for None. *)
TextStr(v) == IF v = NoneVal THEN <<"N", "o", "n", "e">> ELSE v

(* elem.text as the parser gives it: an element written with the empty    *)
(* text ("<nome />") has text None.                                        *)
ElemText(t) == IF t = <<>> THEN NoneVal ELSE t

----------------------------------------------------------------------------
(* The document *)

MissingFile == [st |-> "missing", recs |-> <<>>]
MalformedFile == [st |-> "malformed", recs |-> <<>>]
EmptyDoc == [st |-> "ok", recs |-> <<>>]

(* One <aparelho> element converts when all six children are there and    *)
(* int() and float() accept the texts of id and preco.  find() of a       *)
(* missing child is None, whose .text raises AttributeError; int(None)    *)
(* raises TypeError; int("x") raises ValueError.                          *)
RecOk(r) ==
    /\ \A k \in Fields : r[k] # Absent
    /\ IntOk(ElemText(r.id))
    /\ FloatOk(ElemText(r.preco))

RecDict(r) ==
    [id |-> IntVal(ElemText(r.id)),
     nome |-> ElemText(r.nome),
     marca |-> ElemText(r.marca),
     preco |-> FloatVal(ElemText(r.preco)),
     categoria |-> ElemText(r.categoria),
     deposito |-> ElemText(r.deposito)]

(* child.text = str(value) for every key of the dict. *)
DictRec(d) ==
    [id |-> IntStr(d.id),
     nome |-> TextStr(d.nome),
     marca |-> TextStr(d.marca),
     preco |-> FloatStr(d.preco),
     categoria |-> TextStr(d.categoria),
     deposito |-> TextStr(d.deposito)]

(* carregar_aparelhos_xml without its except clause. *)
carregar_aparelhos_xml_sem_except(f) ==
    IF f.st = "missing"
    THEN [aparelhos |-> <<>>, file |-> [st |-> "ok", recs |-> <<>>],
          raised |-> FALSE, writes |-> <<"create">>]
    ELSE IF f.st = "malformed"
    THEN [aparelhos |-> <<>>, file |-> f, raised |-> TRUE, writes |-> <<>>]
    ELSE IF \E i \in 1..Len(f.recs) : ~RecOk(f.recs[i])
    THEN [aparelhos |-> <<>>, file |-> f, raised |-> TRUE, writes |-> <<>>]
    ELSE [aparelhos |-> [i \in 1..Len(f.recs) |-> RecDict(f.recs[i])],
          file |-> f, raised |-> FALSE, writes |-> <<>>]

(* carregar_aparelhos_xml returning the empty list for a missing file      *)
(* without creating the document.                                         *)
carregar_aparelhos_xml_sem_criar(f) ==
    IF f.st = "missing"
    THEN [aparelhos |-> <<>>, file |-> f, raised |-> FALSE, writes |-> <<>>]
    ELSE IF f.st = "malformed"
    THEN [aparelhos |-> <<>>, file |-> f, raised |-> FALSE, writes |-> <<>>]
    ELSE IF \E i \in 1..Len(f.recs) : ~RecOk(f.recs[i])
    THEN [aparelhos |-> <<>>, file |-> f, raised |-> TRUE, writes |-> <<>>]
    ELSE [aparelhos |-> [i \in 1..Len(f.recs) |-> RecDict(f.recs[i])],
          file |-> f, raised |-> FALSE, writes |-> <<>>]

(* carregar_aparelhos_xml writing the empty document over a file that     *)
(* does not parse.                                                        *)
carregar_aparelhos_xml_recria(f) ==
    IF f.st \in {"missing", "malformed"}
    THEN [aparelhos |-> <<>>, file |-> [st |-> "ok", recs |-> <<>>],
          raised |-> FALSE, writes |-> <<"create">>]
    ELSE IF \E i \in 1..Len(f.recs) : ~RecOk(f.recs[i])
    THEN [aparelhos |-> <<>>, file |-> f, raised |-> TRUE, writes |-> <<>>]
    ELSE [aparelhos |-> [i \in 1..Len(f.recs) |-> RecDict(f.recs[i])],
          file |-> f, raised |-> FALSE, writes |-> <<>>]

(* carregar_aparelhos_xml: the list, the document afterwards, whether an  *)
(* exception left the function, and the writes it made.  Only             *)
(* ET.ParseError is caught.                                               *)
carregar_aparelhos_xml(f) ==
    IF f.st = "missing"
    THEN [aparelhos |-> <<>>, file |-> EmptyDoc, raised |-> FALSE,
          writes |-> <<"create">>]
    ELSE IF f.st = "malformed"
    THEN [aparelhos |-> <<>>, file |-> f, raised |-> FALSE, writes |-> <<>>]
    ELSE IF \E i \in 1..Len(f.recs) : ~RecOk(f.recs[i])
    THEN [aparelhos |-> <<>>, file |-> f, raised |-> TRUE, writes |-> <<>>]
    ELSE [aparelhos |-> [i \in 1..Len(f.recs) |-> RecDict(f.recs[i])],
          file |-> f, raised |-> FALSE, writes |-> <<>>]

(* salvar_aparelhos_xml: the document that replaces the file. *)
salvar_aparelhos_xml(aparelhos) ==
    [st |-> "ok", recs |-> [i \in 1..Len(aparelhos) |-> DictRec(aparelhos[i])]]

----------------------------------------------------------------------------
(* Request data *)

TextN == <<"n">>
TextM == <<"m">>
TextC == <<"c">>
TextW == <<"w">>
TextV == <<"v">>

Ids == 1..MaxId
Nomes == {TextN}
Marcas == {TextM}
Precos == {3}
Categorias == {TextC, <<>>}
Depositos == {TextW}
NovosDepositos == {TextW, TextV}

(* Request bodies that parse as JSON objects with the six fields. *)
Bodies ==
    [id : 0..MaxId, nome : Nomes, marca : Marcas, preco : Precos,
     categoria : Categorias, deposito : Depositos]

NoBody ==
    [id |-> 0, nome |-> <<>>, marca |-> <<>>, preco |-> 0,
     categoria |-> <<>>, deposito |-> <<>>]

(* class Aparelho: id > 0, preco > 0.0, the four texts are there and are *)
(* str (of any length).                                                    *)
Aparelho(a) ==
    /\ a.id > 0
    /\ a.preco > 0
    /\ IsText(a.nome) /\ IsText(a.marca)
    /\ IsText(a.categoria) /\ IsText(a.deposito)

HasId(aparelhos, id) == \E i \in 1..Len(aparelhos) : aparelhos[i].id = id

FirstIndex(aparelhos, id) ==
    CHOOSE i \in 1..Len(aparelhos) :
        /\ aparelhos[i].id = id
        /\ \A j \in 1..(i - 1) : aparelhos[j].id # id

RECURSIVE Without(_, _)
Without(aparelhos, id) ==
    IF aparelhos = <<>> THEN <<>>
    ELSE IF Head(aparelhos).id = id THEN Without(Tail(aparelhos), id)
    ELSE <<Head(aparelhos)>> \o Without(Tail(aparelhos), id)

Outcome(f, status, err, ret, writes) ==
    [file |-> f, status |-> status, err |-> err, ret |-> ret, writes |-> writes]

(* response_model=Aparelho applied to what a handler returns. *)
Respond(o) ==
    IF \A i \in 1..Len(o.ret) : Aparelho(o.ret[i])
    THEN o
    ELSE [o EXCEPT !.status = 500, !.err = "ResponseValidation", !.ret = <<>>]

----------------------------------------------------------------------------
(* The handlers, from the list their load returned.  f is the document    *)
(* when the handler goes on after its load.                               *)

(* adicionar_aparelho without its duplicate check. *)
adicionar_aparelho_sem_verificacao(aparelhos, f, aparelho) ==
    Outcome(salvar_aparelhos_xml(Append(aparelhos, aparelho)),
            201, "none", <<aparelho>>, <<"save">>)

(* adicionar_aparelho appending and saving before its duplicate check. *)
adicionar_aparelho_salva_antes(aparelhos, f, aparelho) ==
    IF HasId(aparelhos, aparelho.id)
    THEN Outcome(salvar_aparelhos_xml(Append(aparelhos, aparelho)),
                 400, "DuplicateId", <<>>, <<"save">>)
    ELSE Outcome(salvar_aparelhos_xml(Append(aparelhos, aparelho)),
                 201, "none", <<aparelho>>, <<"save">>)

(* adicionar_aparelho adding the device to the document as it is at the   *)
(* save, instead of writing the list it loaded with the device appended.  *)
adicionar_aparelho_anexa(aparelhos, f, aparelho) ==
    IF HasId(aparelhos, aparelho.id)
    THEN Outcome(f, 400, "DuplicateId", <<>>, <<>>)
    ELSE Outcome(salvar_aparelhos_xml(
                     Append(carregar_aparelhos_xml(f).aparelhos, aparelho)),
                 201, "none", <<aparelho>>, <<"save">>)

adicionar_aparelho(aparelhos, f, aparelho) ==
    IF HasId(aparelhos, aparelho.id)
    THEN Outcome(f, 400, "DuplicateId", <<>>, <<>>)
    ELSE Outcome(salvar_aparelhos_xml(Append(aparelhos, aparelho)),
                 201, "none", <<aparelho>>, <<"save">>)

listar_aparelhos(aparelhos, f) ==
    Respond(Outcome(f, 200, "none", aparelhos, <<>>))

buscar_aparelho(aparelhos, f, id) ==
    IF HasId(aparelhos, id)
    THEN Respond(Outcome(f, 200, "none", <<aparelhos[FirstIndex(aparelhos, id)]>>, <<>>))
    ELSE Outcome(f, 404, "NotFound", <<>>, <<>>)

(* atualizar_aparelho comparing the ids before it looks the device up. *)
atualizar_aparelho_compara_antes(aparelhos, f, id, aparelho_novo) ==
    IF aparelho_novo.id # id
    THEN Outcome(f, 400, "IdMismatch", <<>>, <<>>)
    ELSE IF ~HasId(aparelhos, id)
    THEN Outcome(f, 404, "NotFound", <<>>, <<>>)
    ELSE Respond(Outcome(
             salvar_aparelhos_xml(
                 [aparelhos EXCEPT ![FirstIndex(aparelhos, id)] = aparelho_novo]),
             200, "none", <<aparelho_novo>>, <<"save">>))

(* atualizar_aparelho without the comparison of the two ids. *)
atualizar_aparelho_sem_comparacao(aparelhos, f, id, aparelho_novo) ==
    IF ~HasId(aparelhos, id)
    THEN Outcome(f, 404, "NotFound", <<>>, <<>>)
    ELSE Respond(Outcome(
             salvar_aparelhos_xml(
                 [aparelhos EXCEPT ![FirstIndex(aparelhos, id)] = aparelho_novo]),
             200, "none", <<aparelho_novo>>, <<"save">>))

atualizar_aparelho(aparelhos, f, id, aparelho_novo) ==
    IF ~HasId(aparelhos, id)
    THEN Outcome(f, 404, "NotFound", <<>>, <<>>)
    ELSE IF aparelho_novo.id # id
    THEN Outcome(f, 400, "IdMismatch", <<>>, <<>>)
    ELSE Respond(Outcome(
             salvar_aparelhos_xml(
                 [aparelhos EXCEPT ![FirstIndex(aparelhos, id)] = aparelho_novo]),
             200, "none", <<aparelho_novo>>, <<"save">>))

(* deletar_aparelho saving the filtered list before its length check. *)
deletar_aparelho_salva_antes(aparelhos, f, id) ==
    IF Len(Without(aparelhos, id)) = Len(aparelhos)
    THEN Outcome(salvar_aparelhos_xml(Without(aparelhos, id)),
                 404, "NotFound", <<>>, <<"save">>)
    ELSE Outcome(salvar_aparelhos_xml(Without(aparelhos, id)),
                 200, "none", <<>>, <<"save">>)

(* deletar_aparelho saving the list it loaded instead of the filtered one. *)
deletar_aparelho_salva_original(aparelhos, f, id) ==
    IF Len(Without(aparelhos, id)) = Len(aparelhos)
    THEN Outcome(f, 404, "NotFound", <<>>, <<>>)
    ELSE Outcome(salvar_aparelhos_xml(aparelhos),
                 200, "none", <<>>, <<"save">>)

deletar_aparelho(aparelhos, f, id) ==
    IF Len(Without(aparelhos, id)) = Len(aparelhos)
    THEN Outcome(f, 404, "NotFound", <<>>, <<>>)
    ELSE Outcome(salvar_aparelhos_xml(Without(aparelhos, id)),
                 200, "none", <<>>, <<"save">>)

transferir_aparelho(aparelhos, f, id, novo_deposito) ==
    IF ~HasId(aparelhos, id)
    THEN Outcome(f, 404, "NotFound", <<>>, <<>>)
    ELSE LET i == FirstIndex(aparelhos, id)
             atualizados == [aparelhos EXCEPT ![i].deposito = novo_deposito]
         IN  Respond(Outcome(salvar_aparelhos_xml(atualizados),
                             200, "none", <<atualizados[i]>>, <<"save">>))

----------------------------------------------------------------------------
(* One request, start to end *)

Request(op, id, body, dep) == [op |-> op, id |-> id, body |-> body, dep |-> dep]

NoRequest == Request("none", 0, NoBody, <<>>)

(* The handler of request r, from the list its load returned. *)
Handle(aparelhos, f, r) ==
    CASE r.op = "create" -> adicionar_aparelho(aparelhos, f, r.body)
      [] r.op = "list" -> listar_aparelhos(aparelhos, f)
      [] r.op = "get" -> buscar_aparelho(aparelhos, f, r.id)
      [] r.op = "replace" -> atualizar_aparelho(aparelhos, f, r.id, r.body)
      [] r.op = "delete" -> deletar_aparelho(aparelhos, f, r.id)
      [] r.op = "transfer" -> transferir_aparelho(aparelhos, f, r.id, r.dep)

(* FastAPI validates the body against Aparelho before it calls the handler. *)
BodyAccepted(r) == r.op \in {"create", "replace"} => Aparelho(r.body)

(* The whole request on document f: validation, load, handler. *)
Serve(f, r) ==
    IF ~BodyAccepted(r)
    THEN Outcome(f, 422, "ValidationError", <<>>, <<>>)
    ELSE LET ld == carregar_aparelhos_xml(f)
         IN  IF ld.raised
             THEN Outcome(ld.file, 500, "LoadError", <<>>, ld.writes)
             ELSE LET o == Handle(ld.aparelhos, ld.file, r)
                  IN  [o EXCEPT !.writes = ld.writes \o o.writes]

(* What is kept of the request that ended last.  Two fields are history  *)
(* the actions fill in: before is what the document was when the request  *)
(* started, repeat says that a delete follows a successful delete of the  *)
(* same id.                                                               *)
Ended(r, coll, o) ==
    [op |-> r.op, id |-> r.id, body |-> r.body, dep |-> r.dep, coll |-> coll,
     status |-> o.status, err |-> o.err, ret |-> o.ret, writes |-> o.writes,
     repeat |-> FALSE, before |-> "none"]

NoLast == Ended(NoRequest, <<>>, Outcome(MissingFile, 0, "none", <<>>, <<>>))

Procs == {1, 2}

(* The id a request is about: of its body for a create, of its path else. *)
ReqId(r) == IF r.op = "create" THEN r.body.id ELSE r.id

(* What is kept of a finished concurrent request: its route and id, how   *)
(* it ended, the number of saves done when it loaded (at) and the number  *)
(* of its own save (saved, 0 when it saved nothing).                      *)
Hist(r, status, err, at, saved) ==
    [op |-> r.op, id |-> ReqId(r), status |-> status, err |-> err,
     at |-> at, saved |-> saved]

NoHist == Hist(NoRequest, 0, "none", 0, 0)

NoReq == [r |-> NoRequest, at |-> 0]

ConcIdle ==
    /\ pc = [p \in Procs |-> "idle"]
    /\ req = [p \in Procs |-> NoReq]
    /\ snap = [p \in Procs |-> <<>>]
    /\ hist = [p \in Procs |-> NoHist]
    /\ ver = 0
    /\ started = 0

ConcVars == <<pc, req, snap, hist, ver, started>>

(* One action per route.  o is the outcome of the whole request: its     *)
(* validation, its load, its handler.                                     *)

PostAparelhos ==
    \E a \in Bodies :
        LET r == Request("create", 0, a, <<>>)
        IN  \E o \in {Serve(file, r)} :
                /\ file' = o.file
                /\ last' = [Ended(r, <<>>, o) EXCEPT !.before = file.st]
                /\ UNCHANGED ConcVars

GetAparelhos ==
    LET r == Request("list", 0, NoBody, <<>>)
    IN  \E o \in {Serve(file, r)} :
            /\ file' = o.file
            /\ last' = [Ended(r, <<>>, o) EXCEPT !.before = file.st]
            /\ UNCHANGED ConcVars

GetAparelho ==
    \E id \in Ids :
        LET r == Request("get", id, NoBody, <<>>)
        IN  \E o \in {Serve(file, r)} :
                /\ file' = o.file
                /\ last' = [Ended(r, <<>>, o) EXCEPT !.before = file.st]
                /\ UNCHANGED ConcVars

PutAparelho ==
    \E id \in Ids, a \in Bodies :
        LET r == Request("replace", id, a, <<>>)
        IN  \E o \in {Serve(file, r)} :
                /\ file' = o.file
                /\ last' = [Ended(r, <<>>, o) EXCEPT !.before = file.st]
                /\ UNCHANGED ConcVars

DeleteAparelho ==
    \E id \in Ids :
        LET r == Request("delete", id, NoBody, <<>>)
            \* history: the request before this one deleted the same id
            again == last.op = "delete" /\ last.id = id /\ last.status = 200
        IN  \E o \in {Serve(file, r)} :
                /\ file' = o.file
                /\ last' = [Ended(r, <<>>, o) EXCEPT !.repeat = again,
                                                  !.before = file.st]
                /\ UNCHANGED ConcVars

PutTransferir ==
    \E id \in Ids, d \in NovosDepositos :
        LET r == Request("transfer", id, NoBody, d)
        IN  \E o \in {Serve(file, r)} :
                /\ file' = o.file
                /\ last' = [Ended(r, <<>>, o) EXCEPT !.before = file.st]
                /\ UNCHANGED ConcVars

(* Requests served one at a time, on a document that is missing, empty or *)
(* unparsable when the service starts.                                     *)
Init ==
    /\ file \in {MissingFile, EmptyDoc, MalformedFile}
    /\ last = NoLast
    /\ ConcIdle

Next ==
    \/ PostAparelhos
    \/ GetAparelhos
    \/ GetAparelho
    \/ PutAparelho
    \/ DeleteAparelho
    \/ PutTransferir

Spec == Init /\ [][Next]_vars

(* What the document holds, as a load reads it. *)
Persisted(f) == carregar_aparelhos_xml(f).aparelhos

----------------------------------------------------------------------------
(* The store called directly, on documents of any content *)

StoreDevices == {a \in Bodies : Aparelho(a)}

Collections == UNION {[1..n -> StoreDevices] : n \in 0..MaxDocLen}

BaseRec == DictRec(CHOOSE a \in StoreDevices : a.id = 1 /\ a.categoria = TextC)

TextX == <<"x">>

(* Children that do not convert, or are not there. *)
CorruptRecs ==
    {[BaseRec EXCEPT !.id = TextX],
     [BaseRec EXCEPT !.id = <<>>],
     [BaseRec EXCEPT !.preco = TextX],
     [BaseRec EXCEPT !.preco = Absent],
     [BaseRec EXCEPT !.nome = Absent]}

SampleRecs == {DictRec(a) : a \in StoreDevices} \cup CorruptRecs

SampleFiles ==
    {MissingFile, MalformedFile}
    \cup {[st |-> "ok", recs |-> s] :
              s \in UNION {[1..n -> SampleRecs] : n \in 0..MaxDocLen}}

CarregarAparelhosXml ==
    LET ld == carregar_aparelhos_xml(file)
        r == Request("load", 0, NoBody, <<>>)
        o == IF ld.raised
             THEN Outcome(ld.file, 0, "LoadError", <<>>, ld.writes)
             ELSE Outcome(ld.file, 0, "none", ld.aparelhos, ld.writes)
    IN  /\ file' = ld.file
        /\ last' = [Ended(r, <<>>, o) EXCEPT !.before = file.st]
        /\ UNCHANGED ConcVars

SalvarAparelhosXml ==
    \E c \in Collections :
        LET r == Request("save", 0, NoBody, <<>>)
            f == salvar_aparelhos_xml(c)
        IN  /\ file' = f
            /\ last' = Ended(r, c, Outcome(f, 0, "none", <<>>, <<"save">>))
            /\ UNCHANGED ConcVars

StoreInit ==
    /\ file \in SampleFiles
    /\ last = NoLast
    /\ ConcIdle

StoreNext ==
    \/ CarregarAparelhosXml
    \/ SalvarAparelhosXml

SpecStore == StoreInit /\ [][StoreNext]_vars

----------------------------------------------------------------------------
(* Two requests at a time: the load of a request and the rest of its      *)
(* handler are separate steps, and nothing orders the steps of two        *)
(* requests.                                                              *)

CBodies == {a \in Bodies : Aparelho(a) /\ a.categoria = TextC}

CRequests ==
    {Request("create", 0, a, <<>>) : a \in CBodies}
    \cup {Request("replace", id, a, <<>>) : id \in Ids, a \in CBodies}
    \cup {Request("delete", id, NoBody, <<>>) : id \in Ids}
    \cup {Request("transfer", id, NoBody, TextV) : id \in Ids}

(* A request enters its handler and loads. *)
Begin(p) ==
    /\ pc[p] = "idle"
    /\ started < MaxReqs
    /\ \E r \in CRequests :
        LET ld == carregar_aparelhos_xml(file)
        IN  /\ file' = ld.file
            /\ started' = started + 1
            /\ IF ld.raised
               THEN /\ hist' = [hist EXCEPT ![p] =
                        Hist(r, 500, "LoadError", ver, 0)]
                    /\ UNCHANGED <<pc, req, snap>>
               ELSE /\ pc' = [pc EXCEPT ![p] = "loaded"]
                    /\ req' = [req EXCEPT ![p] = [r |-> r, at |-> ver]]
                    /\ snap' = [snap EXCEPT ![p] = ld.aparelhos]
                    /\ UNCHANGED hist
            /\ UNCHANGED <<last, ver>>

(* Finish with the handler working on the document as it is now, as if   *)
(* load and save were one step under a lock.                              *)
FinishLocked(p) ==
    /\ pc[p] = "loaded"
    /\ LET o == Handle(carregar_aparelhos_xml(file).aparelhos, file, req[p].r)
           wrote == o.writes # <<>>
       IN  /\ file' = o.file
           /\ ver' = IF wrote THEN ver + 1 ELSE ver
           /\ hist' = [hist EXCEPT ![p] =
                  Hist(req[p].r, o.status, o.err, req[p].at,
                       IF wrote THEN ver + 1 ELSE 0)]
           /\ pc' = [pc EXCEPT ![p] = "idle"]
           /\ req' = [req EXCEPT ![p] = NoReq]
           /\ snap' = [snap EXCEPT ![p] = <<>>]
           /\ UNCHANGED <<last, started>>

(* The handler goes on from the list it loaded, and ends. *)
Finish(p) ==
    /\ pc[p] = "loaded"
    /\ LET o == Handle(snap[p], file, req[p].r)
           wrote == o.writes # <<>>
       IN  /\ file' = o.file
           /\ ver' = IF wrote THEN ver + 1 ELSE ver
           /\ hist' = [hist EXCEPT ![p] =
                  Hist(req[p].r, o.status, o.err, req[p].at,
                       IF wrote THEN ver + 1 ELSE 0)]
           /\ pc' = [pc EXCEPT ![p] = "idle"]
           /\ req' = [req EXCEPT ![p] = NoReq]
           /\ snap' = [snap EXCEPT ![p] = <<>>]
           /\ UNCHANGED <<last, started>>

ConcInit ==
    /\ file \in {MissingFile, EmptyDoc}
    /\ last = NoLast
    /\ ConcIdle

ConcNext ==
    \/ \E p \in Procs : Begin(p)
    \/ \E p \in Procs : Finish(p)

SpecConc == ConcInit /\ [][ConcNext]_vars

----------------------------------------------------------------------------
(* Properties *)

NoDupIds(aparelhos) ==
    \A i, j \in 1..Len(aparelhos) : i # j => aparelhos[i].id # aparelhos[j].id

CountId(aparelhos, id) == Cardinality({i \in 1..Len(aparelhos) : aparelhos[i].id = id})

DomainErrors == {"DuplicateId", "NotFound", "IdMismatch"}

(* The request that ends in this step (last') passed body validation. *)
LastAccepted(l) == BodyAccepted(Request(l.op, l.id, l.body, l.dep))

(* C1: with requests served one at a time from a missing, empty or        *)
(* unparsable document, the persisted collection never holds two devices  *)
(* with the same id.                                                      *)
C1_UniqueIds == NoDupIds(Persisted(file))

C1_Witness ==
    /\ Len(Persisted(file)) = 2
    /\ last.op = "replace" /\ last.status = 200

(* C2: a create whose id is already persisted ends in 400 DuplicateId,    *)
(* the document after it is the document before it, and exactly one       *)
(* record has that id.                                                    *)
C2_DuplicateRejected ==
    [][(/\ last'.op = "create"
        /\ LastAccepted(last')
        /\ HasId(Persisted(file), last'.body.id))
       => (/\ last'.status = 400
           /\ last'.err = "DuplicateId"
           /\ file' = file
           /\ Persisted(file') = Persisted(file)
           /\ CountId(Persisted(file'), last'.body.id) = 1)]_vars

C2_Witness ==
    /\ last.op = "create" /\ last.err = "DuplicateId"
    /\ CountId(Persisted(file), last.body.id) = 1
    /\ Len(Persisted(file)) = 2

(* C3: get, replace (whatever the id of its body), delete and transfer of *)
(* an id no persisted device has end in 404 NotFound and leave the        *)
(* persisted collection as it was.                                        *)
C3_AbsentIdNotFound ==
    [][(/\ last'.op \in {"get", "replace", "delete", "transfer"}
        /\ LastAccepted(last')
        /\ ~HasId(Persisted(file), last'.id))
       => (/\ last'.status = 404
           /\ last'.err = "NotFound"
           /\ Persisted(file') = Persisted(file)
           /\ (file.st # "missing" => file' = file))]_vars

C3_Witness ==
    /\ last.op = "replace" /\ last.err = "NotFound"
    /\ last.body.id # last.id
    /\ Len(Persisted(file)) = 1

(* C4 as stated: a replace whose body id differs from the path id ends in *)
(* 400 IdMismatch with the persisted collection unchanged, whatever the   *)
(* path id.                                                               *)
C4_Original ==
    [][(/\ last'.op = "replace"
        /\ LastAccepted(last')
        /\ last'.body.id # last'.id)
       => (/\ last'.status = 400
           /\ last'.err = "IdMismatch"
           /\ Persisted(file') = Persisted(file))]_vars

(* C4 amended: a replace whose path id is persisted and whose body id     *)
(* differs from it ends in 400 IdMismatch with the document unchanged.    *)
C4_MismatchRejected ==
    [][(/\ last'.op = "replace"
        /\ LastAccepted(last')
        /\ HasId(Persisted(file), last'.id)
        /\ last'.body.id # last'.id)
       => (/\ last'.status = 400
           /\ last'.err = "IdMismatch"
           /\ file' = file
           /\ Persisted(file') = Persisted(file))]_vars

C4_Witness ==
    /\ last.op = "replace" /\ last.err = "IdMismatch"
    /\ HasId(Persisted(file), last.id)
    /\ ~HasId(Persisted(file), last.body.id)

(* C5 as stated: a request that ends in DuplicateId, NotFound or          *)
(* IdMismatch made no write to the document file.                         *)
C5_Original == last.err \in DomainErrors => last.writes = <<>>

(* C5 amended: a request that ends in a domain error never ran the save;  *)
(* on a document that exists (well-formed or not) it wrote nothing, and on *)
(* a missing one its only write is the load creating the empty document.  *)
C5_NoSaveOnDomainError ==
    [][(last'.err \in DomainErrors /\ last'.op # "none")
       => (/\ \A i \in 1..Len(last'.writes) : last'.writes[i] # "save"
           /\ (file.st # "missing" => last'.writes = <<>> /\ file' = file)
           /\ (file.st = "missing"
               => last'.writes = <<"create">> /\ file' = EmptyDoc))]_vars

C5_Witness ==
    /\ last.err = "NotFound"
    /\ last.writes = <<"create">>
    /\ file = EmptyDoc

(* C6 as stated: a load right after the save of a collection of valid     *)
(* devices returns that collection.                                       *)
C6_RoundTrip ==
    [][(last.op = "save" /\ last'.op = "load")
       => (last'.err = "none" /\ last'.ret = last.coll)]_vars

(* C7: on a document that does not parse, load returns the empty list,    *)
(* raises nothing and leaves the file as it is.                           *)
C7_MalformedLoadsEmpty ==
    [][(file.st = "malformed" /\ last'.op = "load")
       => (/\ last'.err = "none"
           /\ last'.ret = <<>>
           /\ last'.writes = <<>>
           /\ file' = file)]_vars

C7_Witness == file.st = "malformed" /\ last.op = "load" /\ last.err = "none"

HasBadRecord(f) == f.st = "ok" /\ \E i \in 1..Len(f.recs) : ~RecOk(f.recs[i])

(* C8 as stated: on a well-formed document with a record that lacks a     *)
(* field or holds a value that does not convert, load returns the empty   *)
(* list and raises nothing.                                               *)
C8_BadRecordLoadsEmpty ==
    [][(HasBadRecord(file) /\ last'.op = "load")
       => (last'.err = "none" /\ last'.ret = <<>>)]_vars

(* C9: when two creates of different ids both load before either saves    *)
(* and both end in 201, the document after the second save holds the      *)
(* device of the request that saved last and not the other one.           *)
LostUpdate(p, q) ==
    /\ p # q
    /\ hist[p].op = "create" /\ hist[p].status = 201
    /\ hist[q].op = "create" /\ hist[q].status = 201
    /\ hist[p].id # hist[q].id
    /\ hist[p].at = hist[q].at
    /\ hist[p].saved = hist[p].at + 1
    /\ hist[q].saved = hist[p].at + 2
    /\ ver = hist[q].saved

C9_LastSaveWins ==
    \A p, q \in Procs :
        LostUpdate(p, q)
        => (/\ HasId(Persisted(file), hist[q].id)
            /\ ~HasId(Persisted(file), hist[p].id))

C9_Witness ==
    \E p, q \in Procs :
        /\ LostUpdate(p, q)
        /\ pc[p] = "idle" /\ pc[q] = "idle"
        /\ Len(Persisted(file)) = 1

(* C10: a delete that comes right after a successful delete of the same   *)
(* id ends in 404 NotFound and leaves the persisted collection as it was. *)
C10_SecondDeleteNotFound ==
    [][(/\ last.op = "delete" /\ last.status = 200
        /\ last'.op = "delete" /\ last'.id = last.id)
       => (/\ last'.status = 404
           /\ last'.err = "NotFound"
           /\ file' = file
           /\ Persisted(file') = Persisted(file))]_vars

C10_Witness ==
    /\ last.op = "delete" /\ last.repeat
    /\ last.err = "NotFound"
    /\ Len(Persisted(file)) = 1

(* C11 as stated, for the get that comes right after: a get of the id of  *)
(* a device just created returns that device, equal in every field; a get *)
(* right after a successful transfer returns the device with the new      *)
(* deposito, as the transfer returned it; a get right after a successful  *)
(* delete of the id ends in 404 NotFound.                                 *)
C11_GetAfter ==
    [][/\ (/\ last.op = "create" /\ last.status = 201
           /\ last'.op = "get" /\ last'.id = last.body.id)
          => (last'.status = 200 /\ last'.ret = <<last.body>>)
       /\ (/\ last.op = "transfer" /\ last.status = 200
           /\ last'.op = "get" /\ last'.id = last.id)
          => (/\ last'.status = 200
              /\ last'.ret = last.ret
              /\ last'.ret[1].deposito = last.dep)
       /\ (/\ last.op = "delete" /\ last.status = 200
           /\ last'.op = "get" /\ last'.id = last.id)
          => (last'.status = 404 /\ last'.err = "NotFound")]_vars

----------------------------------------------------------------------------
(* Requests whose bodies break one field constraint at a time *)

BaseBody(id) ==
    [id |-> id, nome |-> TextN, marca |-> TextM, preco |-> 3,
     categoria |-> TextC, deposito |-> TextW]

(* For every id, 0 included: the plain body, and the body with an empty   *)
(* nome, an empty marca, the price 0, no nome at all.                     *)
FieldBodies ==
    UNION {{BaseBody(id),
            [BaseBody(id) EXCEPT !.nome = <<>>],
            [BaseBody(id) EXCEPT !.marca = <<>>],
            [BaseBody(id) EXCEPT !.preco = 0],
            [BaseBody(id) EXCEPT !.nome = Absent]} : id \in 0..MaxId}

PostAparelhosCampos ==
    \E a \in FieldBodies :
        LET r == Request("create", 0, a, <<>>)
        IN  \E o \in {Serve(file, r)} :
                /\ file' = o.file
                /\ last' = [Ended(r, <<>>, o) EXCEPT !.before = file.st]
                /\ UNCHANGED ConcVars

PutAparelhoCampos ==
    \E id \in Ids, a \in FieldBodies :
        LET r == Request("replace", id, a, <<>>)
        IN  \E o \in {Serve(file, r)} :
                /\ file' = o.file
                /\ last' = [Ended(r, <<>>, o) EXCEPT !.before = file.st]
                /\ UNCHANGED ConcVars

FieldsInit ==
    /\ file \in {MissingFile, EmptyDoc}
    /\ last = NoLast
    /\ ConcIdle

FieldsNext ==
    \/ PostAparelhosCampos
    \/ PutAparelhoCampos
    \/ GetAparelho
    \/ DeleteAparelho

SpecFields == FieldsInit /\ [][FieldsNext]_vars

(* The field constraints of the data model. *)
FieldConstraints(a) ==
    /\ a.id > 0
    /\ a.preco > 0
    /\ IsText(a.nome) /\ a.nome # <<>>
    /\ IsText(a.marca) /\ a.marca # <<>>
    /\ IsText(a.categoria) /\ IsText(a.deposito)

(* C12 as stated: a create or replace whose body breaks a field           *)
(* constraint is rejected with the persisted collection unchanged, and    *)
(* every persisted device has id > 0, a non-empty nome, a non-empty marca *)
(* and preco > 0.                                                         *)
C12_FieldsEnforced ==
    [][/\ (last'.op \in {"create", "replace"} /\ ~FieldConstraints(last'.body))
          => (/\ last'.status \notin {200, 201}
              /\ Persisted(file') = Persisted(file))
       /\ \A i \in 1..Len(Persisted(file')) :
              FieldConstraints(Persisted(file')[i])]_vars

----------------------------------------------------------------------------
(* Properties of the document's life *)

(* C13 as stated: once any request has ended, whatever its kind and       *)
(* outcome, the document exists.                                          *)
C13_Original == last.op # "none" => file.st # "missing"

(* C13 amended: a request that passes body validation and finds no        *)
(* document leaves a well-formed one (the empty document unless it is a   *)
(* create) whose first write is the load creating it, and a list then     *)
(* returns the empty collection; a request rejected by body validation     *)
(* leaves the document missing; a document that exists exists after every *)
(* later request.                                                         *)
C13_DocumentCreated ==
    [][/\ (file.st = "missing" /\ last'.op # "none" /\ last'.status # 422)
          => (/\ file'.st = "ok"
              /\ Len(last'.writes) >= 1 /\ last'.writes[1] = "create"
              /\ (last'.op # "create" => file' = EmptyDoc)
              /\ (last'.op = "list" => last'.status = 200 /\ last'.ret = <<>>))
       /\ (file.st = "missing" /\ last'.status = 422) => file' = file
       /\ (file.st # "missing" => file'.st # "missing")]_vars

C13_Witness ==
    /\ file = EmptyDoc
    /\ last.before = "missing"
    /\ last.op = "list" /\ last.status = 200
    /\ last.writes = <<"create">>

----------------------------------------------------------------------------
(* Requests on documents in which several devices may share an id *)

DupDevices ==
    [id : Ids, nome : {TextN}, marca : {TextM}, preco : {3},
     categoria : {TextC}, deposito : NovosDepositos]

DupFiles ==
    {salvar_aparelhos_xml(c) :
         c \in UNION {[1..n -> DupDevices] : n \in 0..(MaxDocLen + 1)}}

DupInit ==
    /\ file \in DupFiles
    /\ last = NoLast
    /\ ConcIdle

SpecDup == DupInit /\ [][Next]_vars

(* The list without its element at position i. *)
RemoveAt(aparelhos, i) ==
    SubSeq(aparelhos, 1, i - 1) \o SubSeq(aparelhos, i + 1, Len(aparelhos))

NoEmptyText(a) ==
    /\ a.nome \notin {<<>>, NoneVal} /\ a.marca \notin {<<>>, NoneVal}
    /\ a.categoria \notin {<<>>, NoneVal} /\ a.deposito \notin {<<>>, NoneVal}

(* C14 as stated, for devices and bodies without an empty text (which the *)
(* store does not keep, see C6): when several persisted devices have the  *)
(* id, get returns the first of them, replace and transfer change only    *)
(* the first, delete excludes only the first, and every later device      *)
(* stays as it was.                                                       *)
C14_FirstMatchOnly ==
    [][(/\ last'.op \in {"get", "replace", "delete", "transfer"}
        /\ LastAccepted(last')
        /\ last'.op = "replace"
           => (last'.body.id = last'.id /\ NoEmptyText(last'.body))
        /\ \A k \in 1..Len(Persisted(file)) : NoEmptyText(Persisted(file)[k])
        /\ CountId(Persisted(file), last'.id) >= 2)
       => LET P == Persisted(file)
              i == FirstIndex(P, last'.id)
          IN  CASE last'.op = "get" ->
                       last'.ret = <<P[i]>> /\ file' = file
                [] last'.op = "replace" ->
                       Persisted(file') = [P EXCEPT ![i] = last'.body]
                [] last'.op = "transfer" ->
                       Persisted(file') = [P EXCEPT ![i].deposito = last'.dep]
                [] last'.op = "delete" ->
                       Persisted(file') = RemoveAt(P, i)]_vars

----------------------------------------------------------------------------
(* Effects of the successful requests *)

(* C15 as stated: a transfer of a persisted id ends in 200; the persisted *)
(* collection afterwards is the one before with the deposito of the       *)
(* matching device set to the new one and nothing else changed, and the   *)
(* device returned is the updated persisted record.                       *)
C15_TransferFrame ==
    [][(last'.op = "transfer" /\ HasId(Persisted(file), last'.id))
       => LET P == Persisted(file)
              i == FirstIndex(P, last'.id)
          IN  /\ last'.status = 200
              /\ Persisted(file') = [P EXCEPT ![i].deposito = last'.dep]
              /\ last'.ret = <<Persisted(file')[i]>>]_vars

(* C16 as stated: a replace of a persisted id by a valid body of the same *)
(* id ends in 200; the persisted collection afterwards is the one before  *)
(* with the body at the position of the matching device and nothing else  *)
(* changed, and the body is returned.                                     *)
C16_ReplaceInPlace ==
    [][(/\ last'.op = "replace"
        /\ LastAccepted(last')
        /\ last'.body.id = last'.id
        /\ HasId(Persisted(file), last'.id))
       => LET P == Persisted(file)
              i == FirstIndex(P, last'.id)
          IN  /\ last'.status = 200
              /\ Persisted(file') = [P EXCEPT ![i] = last'.body]
              /\ last'.ret = <<last'.body>>]_vars

(* C17 as stated: a create of a valid device whose id is not persisted    *)
(* ends in 201; the persisted collection afterwards is the one before,    *)
(* unchanged, followed by the new device, and the device is returned.     *)
C17_CreateAppends ==
    [][(/\ last'.op = "create"
        /\ LastAccepted(last')
        /\ ~HasId(Persisted(file), last'.body.id))
       => (/\ last'.status = 201
           /\ Persisted(file') = Append(Persisted(file), last'.body)
           /\ last'.ret = <<last'.body>>)]_vars

(* C18 as stated: on a well-formed document list and get leave the        *)
(* document as it is, and list returns every persisted device in          *)
(* document order.                                                        *)
C18_ReadsOnly ==
    [][(file.st = "ok" /\ last'.op \in {"list", "get"})
       => (/\ file' = file
           /\ (last'.op = "list"
               => last'.status = 200 /\ last'.ret = Persisted(file)))]_vars

----------------------------------------------------------------------------
(* Races and unparsable documents *)

(* C19: with the load and the rest of each handler as separate steps of   *)
(* requests that interleave freely, the document never holds two devices  *)
(* with the same id, and neither does any list a request has loaded.      *)
C19_UniqueIdsUnderRaces ==
    /\ NoDupIds(Persisted(file))
    /\ \A p \in Procs : NoDupIds(snap[p])

SameIdRace(p, q) ==
    /\ p # q
    /\ hist[p].op = "create" /\ hist[p].status = 201
    /\ hist[q].op = "create" /\ hist[q].status = 201
    /\ hist[p].id = hist[q].id
    /\ hist[p].at = hist[q].at
    /\ hist[q].saved = hist[p].saved + 1
    /\ ver = hist[q].saved

C19_Witness ==
    \E p, q \in Procs :
        /\ SameIdRace(p, q)
        /\ CountId(Persisted(file), hist[q].id) = 1

(* C20: on a document that does not parse, a create with a valid device   *)
(* ends in 201 and its one write replaces the file by the well-formed     *)
(* document of that one device; get, replace, delete and transfer end in  *)
(* 404 NotFound, write nothing and leave the file as it is.               *)
C20_MalformedDocument ==
    [][(file.st = "malformed" /\ last'.op # "none" /\ LastAccepted(last'))
       => CASE last'.op = "create" ->
                   /\ last'.status = 201
                   /\ last'.writes = <<"save">>
                   /\ file'.st = "ok"
                   /\ file'.recs = <<DictRec(last'.body)>>
                   /\ Len(Persisted(file')) = 1
                   /\ Persisted(file')[1].id = last'.body.id
            [] last'.op \in {"get", "replace", "delete", "transfer"} ->
                   /\ last'.status = 404
                   /\ last'.err = "NotFound"
                   /\ last'.writes = <<>>
                   /\ file' = file
            [] OTHER -> TRUE]_vars

C20_Witness ==
    /\ last.op = "create" /\ last.status = 201
    /\ last.before = "malformed"
    /\ file.st = "ok" /\ Len(Persisted(file)) = 1

====
